---- MODULE Spec2Model ----
\* Verification model of two components of the sozu data plane:
\*   lib/src/protocol/h2/state.rs   the HTTP/2 connection state (State)
\*   lib/src/network/backends.rs    the backend pool (BackendMap, BackendList)
\* The two components share no state; SpecH2 runs the first, SpecPool the second.
EXTENDS Integers, Sequences, FiniteSets, TLC

VARIABLES
  \* ---- h2::State ----
  output,          \* State.output: FIFO of OutputFrame
  state,           \* State.state: St
  interest,        \* State.interest: readiness set
  max_frame_size,  \* State.max_frame_size
  panicked,        \* a panic!/unimplemented! unwound out of a State method
  trace,           \* history: the discrete states visited, in order
  dynamic_table,   \* history: the dynamic table left by the decoder of the last HEADERS frame
  received,        \* history: the pieces a session has read from the client, in order
  unread,          \* the session's read buffer: the bytes read and not yet reported consumed
  h2last,          \* history: the last State call, its arguments and its results
  \* ---- network::BackendMap ----
  instances,       \* BackendMap.instances: HashMap<AppId, BackendList>
  max_failures,    \* BackendMap.max_failures
  issued,          \* history: per app, the ids handed out by the app's current BackendList
  sessions,        \* the followed sessions holding a Backend they selected and have not closed
  last             \* history: the last BackendMap call, its arguments and its results

h2vars   == <<output, state, interest, max_frame_size, panicked, trace, dynamic_table,
              received, unread, h2last>>
poolvars == <<instances, max_failures, issued, sessions, last>>
vars     == <<output, state, interest, max_frame_size, panicked, trace, dynamic_table,
              received, unread, h2last,
              instances, max_failures, issued, sessions, last>>

\* ------------------------------------------------------------------------
\* HTTP/2 connection state
\* ------------------------------------------------------------------------

\* The 24-byte client connection preface "PRI * HTTP/2.0\r\n\r\nSM\r\n\r\n".
PREFACE ==
  <<80, 82, 73, 32, 42, 32, 72, 84, 84, 80, 47, 50, 46, 48,
    13, 10, 13, 10, 83, 77, 13, 10, 13, 10>>

FrameHeaderLen == 9

\* Frame type codes of the wire format.
TypeName(code) ==
  CASE code = 0 -> "Data"
    [] code = 1 -> "Headers"
    [] code = 4 -> "Settings"
    [] code = 6 -> "Ping"
    [] OTHER    -> "Unknown"

TypeCode(name) ==
  CASE name = "Data"     -> 0
    [] name = "Headers"  -> 1
    [] name = "Settings" -> 4
    [] name = "Ping"     -> 6
    [] OTHER             -> 255

NoHeader == [payload_len |-> 0, frame_type |-> "None", flags |-> 0, stream_id |-> 0]
NoFrame  == [kind |-> "None", header |-> NoHeader, payload |-> <<>>]

IsPrefix(p, s) == Len(s) >= Len(p) /\ SubSeq(s, 1, Len(p)) = p

\* parser::preface: recognises the connection preface at the head of the input
\* and returns the remaining input.
preface(input) ==
  IF IsPrefix(PREFACE, input)
  THEN [ok |-> TRUE,  rest |-> SubSeq(input, Len(PREFACE) + 1, Len(input))]
  ELSE [ok |-> FALSE, rest |-> input]

\* parser::frame: 9-byte header (24-bit length, type, flags, reserved bit and
\* 31-bit stream id), then the payload of the declared length.
frame(input, max) ==
  IF Len(input) < FrameHeaderLen
  THEN [ok |-> FALSE, frame |-> NoFrame, rest |-> input]
  ELSE
    LET plen == input[1] * 65536 + input[2] * 256 + input[3]
        kind == TypeName(input[4])
        sid  == (input[6] % 128) * 16777216 + input[7] * 65536 + input[8] * 256 + input[9]
        hdr  == [payload_len |-> plen, frame_type |-> kind,
                 flags |-> input[5], stream_id |-> sid]
    IN IF plen > max \/ kind = "Unknown" \/ Len(input) < FrameHeaderLen + plen
       THEN [ok |-> FALSE, frame |-> NoFrame, rest |-> input]
       ELSE [ok    |-> TRUE,
             frame |-> [kind |-> kind, header |-> hdr,
                        payload |-> SubSeq(input, FrameHeaderLen + 1, FrameHeaderLen + plen)],
             rest  |-> SubSeq(input, FrameHeaderLen + plen + 1, Len(input))]

\* serializer::gen_frame_header into a buffer of buflen bytes, starting at 0.
gen_frame_header(buflen, header) ==
  IF buflen < FrameHeaderLen
  THEN [ok |-> FALSE, index |-> 0, bytes |-> <<>>]
  ELSE [ok |-> TRUE, index |-> FrameHeaderLen,
        bytes |-> << (header.payload_len \div 65536) % 256,
                     (header.payload_len \div 256) % 256,
                     header.payload_len % 256,
                     TypeCode(header.frame_type),
                     header.flags % 256,
                     (header.stream_id \div 16777216) % 128,
                     (header.stream_id \div 65536) % 256,
                     (header.stream_id \div 256) % 256,
                     header.stream_id % 256 >>]

\* input.offset(i): how far the remaining slice i starts into input.
offset(input, i) == Len(input) - Len(i)

\* The State struct as a value.
Self == [output |-> output, state |-> state, interest |-> interest,
         max_frame_size |-> max_frame_size]

\* State::new
State_new ==
  [output |-> <<>>, state |-> "Init",
   interest |-> {"readable", "hup", "error"}, max_frame_size |-> 16384]

\* parse that counts the frame's bytes only, not the preface before it
parse_frame_only(self, input) ==
  LET p    == preface(input)
      inInit == self.state = "Init"
  IN IF inInit /\ ~p.ok
     THEN [self |-> self, consumed |-> 0, ok |-> FALSE, frame |-> NoFrame]
     ELSE
       LET c1   == IF inInit THEN offset(input, p.rest) ELSE 0
           s1   == IF inInit THEN [self EXCEPT !.state = "ClientPrefaceReceived"] ELSE self
           in1  == IF inInit THEN p.rest ELSE input
           f    == frame(in1, s1.max_frame_size)
       IN IF ~f.ok
          THEN [self |-> s1, consumed |-> c1, ok |-> FALSE, frame |-> NoFrame]
          ELSE [self |-> s1, consumed |-> offset(in1, f.rest),
                ok |-> TRUE, frame |-> f.frame]

\* parse that reports nothing consumed when the frame after the preface fails
parse_error_zero(self, input) ==
  LET p    == preface(input)
      inInit == self.state = "Init"
  IN IF inInit /\ ~p.ok
     THEN [self |-> self, consumed |-> 0, ok |-> FALSE, frame |-> NoFrame]
     ELSE
       LET c1   == IF inInit THEN offset(input, p.rest) ELSE 0
           s1   == IF inInit THEN [self EXCEPT !.state = "ClientPrefaceReceived"] ELSE self
           in1  == IF inInit THEN p.rest ELSE input
           f    == frame(in1, s1.max_frame_size)
       IN IF ~f.ok
          THEN [self |-> s1, consumed |-> 0, ok |-> FALSE, frame |-> NoFrame]
          ELSE [self |-> s1, consumed |-> c1 + offset(in1, f.rest),
                ok |-> TRUE, frame |-> f.frame]

\* State::parse
parse(self, input) ==
  LET p    == preface(input)
      inInit == self.state = "Init"
  IN IF inInit /\ ~p.ok
     THEN [self |-> self, consumed |-> 0, ok |-> FALSE, frame |-> NoFrame]
     ELSE
       LET c1   == IF inInit THEN offset(input, p.rest) ELSE 0
           s1   == IF inInit THEN [self EXCEPT !.state = "ClientPrefaceReceived"] ELSE self
           in1  == IF inInit THEN p.rest ELSE input
           f    == frame(in1, s1.max_frame_size)
       IN IF ~f.ok
          THEN [self |-> s1, consumed |-> c1, ok |-> FALSE, frame |-> NoFrame]
          ELSE [self |-> s1, consumed |-> c1 + offset(in1, f.rest),
                ok |-> TRUE, frame |-> f.frame]

\* a SETTINGS frame without the ACK flag
server_settings_noack ==
  [header  |-> [payload_len |-> 0, frame_type |-> "Settings", flags |-> 0, stream_id |-> 0],
   payload |-> "None"]

\* The frame handle enqueues in ClientPrefaceReceived.
server_settings ==
  [header  |-> [payload_len |-> 0, frame_type |-> "Settings", flags |-> 1, stream_id |-> 0],
   payload |-> "None"]

\* The outcomes of handing a header block to a fresh hpack::Decoder and
\* printing the decoded list: a decode error, a list of UTF-8 names and values,
\* or a list holding a name or value that from_utf8 rejects.
DecodeOutcomes == {"err", "ok_utf8", "ok_not_utf8"}

\* std::str::from_utf8(bytes).is_ok(): every character is a lead byte followed
\* by its continuation bytes (the second-byte ranges that exclude overlong
\* forms and surrogates are not told apart).
from_utf8_ok(bytes) ==
  LET Continuations(b) ==
        IF b < 128 THEN 0
        ELSE IF b >= 194 /\ b <= 223 THEN 1
        ELSE IF b >= 224 /\ b <= 239 THEN 2
        ELSE IF b >= 240 /\ b <= 244 THEN 3
        ELSE -1
      RECURSIVE Go(_)
      Go(i) ==
        IF i > Len(bytes) THEN TRUE
        ELSE LET n == Continuations(bytes[i])
             IN /\ n >= 0
                /\ i + n <= Len(bytes)
                /\ \A k \in (i + 1)..(i + n) : bytes[k] >= 128 /\ bytes[k] <= 191
                /\ Go(i + n + 1)
  IN Go(1)

\* The HPACK static table has 61 entries, all of them ASCII; the dynamic table
\* is indexed from 62, newest entry first.
StaticTableLen == 61

\* hpack::Decoder::new: a decoder with an empty dynamic table.
Decoder_new == <<>>

\* hpack::Decoder::decode of a header block by a decoder whose dynamic table is
\* table: the outcome and the dynamic table the decoder is left with. Two
\* field representations are read, the indexed field (1xxxxxxx) and the
\* literal field with incremental indexing and a new name (01000000, then name
\* and value as raw length-prefixed strings), which inserts a table entry; a
\* block holding anything else is outside the blocks sent here and is
\* reported as an error.
decode(table, block) ==
  LET RECURSIVE Go(_, _, _)
      Go(tbl, i, utf8) ==
        IF i > Len(block)
        THEN [res |-> IF utf8 THEN "ok_utf8" ELSE "ok_not_utf8", table |-> tbl]
        ELSE IF block[i] >= 128
        THEN LET index == block[i] - 128
             IN IF index = 0 \/ index > StaticTableLen + Len(tbl)
                THEN [res |-> "err", table |-> tbl]
                ELSE IF index <= StaticTableLen
                THEN Go(tbl, i + 1, utf8)
                ELSE LET e == tbl[index - StaticTableLen]
                     IN Go(tbl, i + 1, utf8 /\ from_utf8_ok(e.name) /\ from_utf8_ok(e.value))
        ELSE IF block[i] = 64 /\ i + 1 <= Len(block) /\ block[i + 1] < 128
        THEN LET nlen == block[i + 1]
                 vpos == i + 2 + nlen
             IN IF vpos > Len(block) \/ block[vpos] >= 128 \/ vpos + block[vpos] > Len(block)
                THEN [res |-> "err", table |-> tbl]
                ELSE LET e == [name  |-> SubSeq(block, i + 2, i + 1 + nlen),
                               value |-> SubSeq(block, vpos + 1, vpos + block[vpos])]
                     IN Go(<<e>> \o tbl, vpos + block[vpos] + 1,
                           utf8 /\ from_utf8_ok(e.name) /\ from_utf8_ok(e.value))
        ELSE [res |-> "err", table |-> tbl]
  IN Go(table, 1, TRUE)

\* handle that forgets to ask for writability
InterestInsert_skipped(self) == self

\* self.interest.insert(UnixReady::from(Ready::writable()))
InterestInsert(self) == [self EXCEPT !.interest = @ \cup {"writable"}]

\* handle that ignores the frames a state does not accept
handle_tolerant(self, f, dec) ==
  CASE self.state = "Init" ->
         [self |-> self, ret |-> TRUE, panic |-> FALSE]
    [] self.state = "ClientPrefaceReceived" ->
         IF f.kind = "Settings"
         THEN [self  |-> InterestInsert(
                           [self EXCEPT !.output = Append(@, server_settings),
                                        !.state  = "ServerPrefaceSent"]),
               ret   |-> TRUE, panic |-> FALSE]
         ELSE [self |-> self, ret |-> TRUE, panic |-> FALSE]
    [] self.state = "ServerPrefaceSent" ->
         IF f.kind = "Headers"
         THEN [self |-> self, ret |-> FALSE, panic |-> (dec = "ok_not_utf8")]
         ELSE [self |-> self, ret |-> TRUE, panic |-> FALSE]

\* State::handle; dec is the outcome of decoding the header block.
handle(self, f, dec) ==
  CASE self.state = "Init" ->
         [self |-> self, ret |-> TRUE, panic |-> FALSE]
    [] self.state = "ClientPrefaceReceived" ->
         IF f.kind = "Settings"
         THEN [self  |-> InterestInsert(
                           [self EXCEPT !.output = Append(@, server_settings),
                                        !.state  = "ServerPrefaceSent"]),
               ret   |-> TRUE, panic |-> FALSE]
         ELSE [self |-> self, ret |-> FALSE, panic |-> TRUE]
    [] self.state = "ServerPrefaceSent" ->
         IF f.kind = "Headers"
         THEN [self |-> self, ret |-> FALSE, panic |-> (dec = "ok_not_utf8")]
         ELSE [self |-> self, ret |-> FALSE, panic |-> TRUE]

\* State::parse_and_handle
parse_and_handle(self, input, dec) ==
  LET p == parse(self, input)
  IN IF ~p.ok
     THEN [self |-> p.self, consumed |-> p.consumed, ret |-> FALSE, panic |-> FALSE,
           ok |-> FALSE, frame |-> NoFrame, mid |-> p.self.state]
     ELSE LET h == handle(p.self, p.frame, dec)
          IN [self |-> h.self, consumed |-> p.consumed, ret |-> h.ret, panic |-> h.panic,
              ok |-> TRUE, frame |-> p.frame, mid |-> p.self.state]

\* self.interest.remove(Ready::writable())
InterestRemove(self) == [self EXCEPT !.interest = @ \ {"writable"}]

\* gen that serializes the front frame and leaves it queued
gen_front(self, buflen) ==
  IF Len(self.output) > 0
  THEN LET g == gen_frame_header(buflen, Head(self.output).header)
       IN [self |-> self, written |-> g.index, bytes |-> g.bytes, panic |-> ~g.ok]
  ELSE [self |-> InterestRemove(self), written |-> 0, bytes |-> <<>>, panic |-> FALSE]

\* State::gen into a buffer of buflen bytes
gen(self, buflen) ==
  IF Len(self.output) > 0
  THEN LET fr == Head(self.output)
           s1 == [self EXCEPT !.output = Tail(@)]
           g  == gen_frame_header(buflen, fr.header)
       IN IF ~g.ok
          THEN [self |-> s1, written |-> 0, bytes |-> <<>>, panic |-> TRUE]
          ELSE [self |-> s1, written |-> g.index, bytes |-> g.bytes, panic |-> FALSE]
  ELSE [self |-> InterestRemove(self), written |-> 0, bytes |-> <<>>, panic |-> FALSE]

\* ---- the calls a session makes on a State ----

SettingsFrame  == <<0, 0, 0, 4, 0, 0, 0, 0, 0>>
HeadersFrame   == <<0, 0, 1, 1, 4, 0, 0, 0, 1, 130>>
\* HEADERS frames whose block inserts "a: b" in the dynamic table, refers to
\* the newest dynamic entry (index 62), and carries a value that is not UTF-8.
HeadersInsertFrame == <<0, 0, 5, 1, 4, 0, 0, 0, 1, 64, 1, 97, 1, 98>>
HeadersRefFrame    == <<0, 0, 1, 1, 4, 0, 0, 0, 3, 190>>
HeadersRawFrame    == <<0, 0, 5, 1, 4, 0, 0, 0, 1, 64, 1, 97, 1, 255>>
DataFrame      == <<0, 0, 1, 0, 0, 0, 0, 0, 1, 7>>
OversizeFrame  == <<0, 64, 1, 0, 0, 0, 0, 0, 1>>
TruncatedFrame == <<0, 0, 2, 1, 4, 0, 0, 0, 1, 130>>
BadPreface     == [i \in 1..Len(PREFACE) |-> IF i = 20 THEN 88 ELSE PREFACE[i]]
ShortPreface   == SubSeq(PREFACE, 1, 10)

\* What a client may send first, and the frames that may follow.
Prefixes   == {<<>>, PREFACE, BadPreface, ShortPreface}
FramesSent == {SettingsFrame, HeadersFrame, DataFrame, OversizeFrame, TruncatedFrame}

\* The inputs fed to parse: a prefix, then up to MaxFrames frames.
MaxFrames == 1

RECURSIVE Concats(_)
Concats(n) ==
  IF n = 0 THEN {<<>>}
  ELSE LET shorter == Concats(n - 1)
       IN shorter \cup {a \o b : a \in shorter, b \in FramesSent}

Inputs == {a \o b : a \in Prefixes, b \in Concats(MaxFrames)}

\* The frames handed to handle directly.
Frames == {frame(p, 16384).frame :
             p \in {SettingsFrame, HeadersFrame, DataFrame,
                    HeadersInsertFrame, HeadersRefFrame, HeadersRawFrame}}

\* The sizes of the buffers handed to gen.
BufLens == {0, 8, 9, 16}

Visit(tr, s) == IF tr[Len(tr)] = s THEN tr ELSE Append(tr, s)

H2Call(op) ==
  [op |-> op, input |-> <<>>, from |-> state, mid |-> state, consumed |-> 0,
   ok |-> FALSE, frame |-> NoFrame, dec |-> "none", ret |-> FALSE,
   queued |-> Len(output), buflen |-> 0, written |-> 0, bytes |-> <<>>,
   table |-> <<>>]

SetSelf(s) ==
  /\ output' = s.output
  /\ state' = s.state
  /\ interest' = s.interest
  /\ max_frame_size' = s.max_frame_size

Parse ==
  /\ ~panicked
  /\ \E input \in Inputs :
       LET r == parse(Self, input)
       IN /\ SetSelf(r.self)
          /\ trace' = Visit(trace, r.self.state)
          /\ h2last' = [H2Call("parse") EXCEPT !.input = input, !.mid = r.self.state,
                          !.consumed = r.consumed, !.ok = r.ok, !.frame = r.frame]
  /\ UNCHANGED <<panicked, dynamic_table, received, unread, poolvars>>

Handle ==
  /\ ~panicked
  /\ \E f \in Frames, dec \in DecodeOutcomes :
       LET r == handle(Self, f, dec)
           decoded == state = "ServerPrefaceSent" /\ f.kind = "Headers"
           d == decode(Decoder_new, f.payload)
       IN /\ dec = IF decoded THEN d.res ELSE "err"
          /\ SetSelf(r.self)
          /\ panicked' = r.panic
          /\ trace' = Visit(trace, r.self.state)
          /\ dynamic_table' = IF decoded THEN d.table ELSE dynamic_table
          /\ h2last' = [H2Call("handle") EXCEPT !.ok = TRUE, !.frame = f, !.ret = r.ret,
                          !.dec = IF decoded THEN dec ELSE "none",
                          !.table = Decoder_new]
  /\ UNCHANGED <<received, unread, poolvars>>

ParseAndHandle ==
  /\ ~panicked
  /\ \E input \in Inputs, dec \in DecodeOutcomes :
       LET r == parse_and_handle(Self, input, dec)
           decoded == r.ok /\ r.mid = "ServerPrefaceSent" /\ r.frame.kind = "Headers"
           d == decode(Decoder_new, r.frame.payload)
       IN /\ dec = IF decoded THEN d.res ELSE "err"
          /\ SetSelf(r.self)
          /\ panicked' = r.panic
          /\ trace' = Visit(Visit(trace, r.mid), r.self.state)
          /\ dynamic_table' = IF decoded THEN d.table ELSE dynamic_table
          /\ h2last' = [H2Call("parse_and_handle") EXCEPT !.input = input, !.mid = r.mid,
                          !.consumed = r.consumed, !.ok = r.ok, !.frame = r.frame,
                          !.ret = r.ret, !.dec = IF decoded THEN dec ELSE "none",
                          !.table = Decoder_new]
  /\ UNCHANGED <<received, unread, poolvars>>

Gen ==
  /\ ~panicked
  /\ \E buflen \in BufLens :
       LET r == gen(Self, buflen)
       IN /\ SetSelf(r.self)
          /\ panicked' = r.panic
          /\ h2last' = [H2Call("gen") EXCEPT !.buflen = buflen, !.written = r.written,
                          !.bytes = r.bytes]
  /\ UNCHANGED <<trace, dynamic_table, received, unread, poolvars>>

InitH2 ==
  /\ output = State_new.output
  /\ state = State_new.state
  /\ interest = State_new.interest
  /\ max_frame_size = State_new.max_frame_size
  /\ panicked = FALSE
  /\ trace = <<"Init">>
  /\ dynamic_table = <<>>
  /\ received = <<>>
  /\ unread = <<>>
  /\ h2last = [op |-> "new", input |-> <<>>, from |-> "Init", mid |-> "Init",
               consumed |-> 0, ok |-> FALSE, frame |-> NoFrame, dec |-> "none",
               ret |-> FALSE, queued |-> 0, buflen |-> 0, written |-> 0, bytes |-> <<>>,
               table |-> <<>>]

NextH2 == Parse \/ Handle \/ ParseAndHandle \/ Gen

\* ---- a session feeding a State from its read buffer ----

\* The session reads the client's bytes in up to MaxChunks pieces.
MaxChunks == 3

\* The pieces: the preface whole or cut in two, a damaged preface, a SETTINGS
\* frame, and a HEADERS frame whole or cut inside its header.
Chunks ==
  {PREFACE, SubSeq(PREFACE, 1, 10), SubSeq(PREFACE, 11, Len(PREFACE)), BadPreface,
   SettingsFrame, HeadersFrame, SubSeq(HeadersFrame, 1, 5),
   SubSeq(HeadersFrame, 6, Len(HeadersFrame))}

\* The caller drops the bytes a call reported consumed and keeps the rest.
Drop(s, n) == SubSeq(s, n + 1, Len(s))

\* The session reads one more piece from the socket into its buffer.
Receive ==
  /\ ~panicked
  /\ Len(received) < MaxChunks
  /\ \E chunk \in Chunks :
       /\ received' = Append(received, chunk)
       /\ unread' = unread \o chunk
  /\ h2last' = H2Call("read")
  /\ UNCHANGED <<output, state, interest, max_frame_size, panicked, trace,
                 dynamic_table, poolvars>>

\* The session calls parse on its buffer and drops the bytes reported consumed.
SessionParse ==
  /\ ~panicked
  /\ LET r == parse(Self, unread)
     IN /\ SetSelf(r.self)
        /\ trace' = Visit(trace, r.self.state)
        /\ unread' = Drop(unread, r.consumed)
        /\ h2last' = [H2Call("parse") EXCEPT !.input = unread, !.mid = r.self.state,
                        !.consumed = r.consumed, !.ok = r.ok, !.frame = r.frame]
  /\ UNCHANGED <<panicked, dynamic_table, received, poolvars>>

\* The session calls parse_and_handle on its buffer and drops the bytes
\* reported consumed.
SessionParseAndHandle ==
  /\ ~panicked
  /\ LET p       == parse(Self, unread)
         decoded == p.ok /\ p.self.state = "ServerPrefaceSent" /\ p.frame.kind = "Headers"
         d       == decode(Decoder_new, p.frame.payload)
         dec     == IF decoded THEN d.res ELSE "err"
         r       == parse_and_handle(Self, unread, dec)
     IN /\ SetSelf(r.self)
        /\ panicked' = r.panic
        /\ trace' = Visit(Visit(trace, r.mid), r.self.state)
        /\ dynamic_table' = IF decoded THEN d.table ELSE dynamic_table
        /\ unread' = Drop(unread, r.consumed)
        /\ h2last' = [H2Call("parse_and_handle") EXCEPT !.input = unread, !.mid = r.mid,
                        !.consumed = r.consumed, !.ok = r.ok, !.frame = r.frame,
                        !.ret = r.ret, !.dec = IF decoded THEN dec ELSE "none",
                        !.table = Decoder_new]
  /\ UNCHANGED <<received, poolvars>>

NextStream == Receive \/ SessionParse \/ SessionParseAndHandle

\* ---- properties of the connection state ----

Writable == "writable" \in interest

TheSettingsAck ==
  [header  |-> [payload_len |-> 0, frame_type |-> "Settings", flags |-> 1, stream_id |-> 0],
   payload |-> "None"]

\* C9: from State::new, a parse of the valid preface moves Init to
\* ClientPrefaceReceived, and handling a SETTINGS frame there moves on to
\* ServerPrefaceSent, in that order; afterwards the output queue holds exactly
\* the empty SETTINGS frame with flags 1 on stream 0 and interest contains writable.
C9_PrefaceThenSettings ==
  /\ (/\ h2last.op \in {"parse", "parse_and_handle"}
      /\ h2last.from = "Init"
      /\ IsPrefix(PREFACE, h2last.input))
     => (h2last.mid = "ClientPrefaceReceived" /\ SubSeq(trace, 1, 2) = <<"Init", "ClientPrefaceReceived">>)
  /\ (/\ h2last.op \in {"handle", "parse_and_handle"}
      /\ h2last.ok
      /\ h2last.mid = "ClientPrefaceReceived"
      /\ h2last.frame.kind = "Settings")
     => (/\ ~panicked
         /\ state = "ServerPrefaceSent"
         /\ trace = <<"Init", "ClientPrefaceReceived", "ServerPrefaceSent">>
         /\ output = <<TheSettingsAck>>
         /\ Writable)

\* C9 witness: the preface and a SETTINGS frame went through parse and handle.
C9_Witness ==
  /\ h2last.op = "parse_and_handle"
  /\ h2last.from = "Init"
  /\ h2last.input = PREFACE \o SettingsFrame
  /\ state = "ServerPrefaceSent"
  /\ Len(output) = 1

C11_ParseConsumed ==
  \A input \in Inputs :
    LET r == parse(Self, input)
    IN /\ r.consumed <= Len(input)
       /\ r.ok => /\ r.consumed = (IF state = "Init" THEN Len(PREFACE) ELSE 0)
                                  + FrameHeaderLen + r.frame.header.payload_len
                  /\ Len(r.frame.payload) = r.frame.header.payload_len
       /\ (state = "Init" /\ ~IsPrefix(PREFACE, input))
            => (r.consumed = 0 /\ ~r.ok /\ r.self.state = "Init")

\* C11 witness: a parse call that started in Init returned the HEADERS frame
\* that followed the preface, 24 + 9 + 1 bytes in all.
C11_Witness ==
  /\ h2last.op = "parse"
  /\ h2last.from = "Init"
  /\ h2last.ok
  /\ h2last.frame.kind = "Headers"
  /\ h2last.consumed = 34

\* C14 as stated: a State keeps one HPACK decoder for the whole connection:
\* the decoder that decodes a HEADERS frame starts with the dynamic-table
\* entries established while the earlier HEADERS frames of the State were
\* handled, for any number of HEADERS frames.
C14_OneDecoderPerConnection ==
  [][ (h2last'.op \in {"handle", "parse_and_handle"} /\ h2last'.dec # "none")
        => h2last'.table = dynamic_table ]_vars

\* The frames a discrete state does not accept.
Unexpected(st, kind) ==
  \/ st = "ClientPrefaceReceived" /\ kind # "Settings"
  \/ st = "ServerPrefaceSent" /\ kind # "Headers"

\* C16: handle given any frame other than SETTINGS in ClientPrefaceReceived,
\* or any frame other than HEADERS in ServerPrefaceSent, ends in a fatal
\* outcome (a panic): it returns no keep-alive value, does not change the
\* discrete state, enqueues no OutputFrame and does not add writable to interest.
C16_UnexpectedFrameIsFatal ==
  /\ \A f \in Frames, dec \in DecodeOutcomes :
       Unexpected(state, f.kind)
         => LET r == handle(Self, f, dec)
            IN r.panic /\ ~r.ret /\ r.self = Self
  /\ (/\ h2last.op \in {"handle", "parse_and_handle"}
      /\ h2last.ok
      /\ Unexpected(h2last.mid, h2last.frame.kind))
     => (/\ panicked
         /\ ~h2last.ret
         /\ state = h2last.mid
         /\ Len(output) = h2last.queued)

\* C16 witness: a DATA frame followed the preface and handle panicked in
\* ClientPrefaceReceived with nothing queued.
C16_Witness ==
  /\ h2last.op = "parse_and_handle"
  /\ h2last.frame.kind = "Data"
  /\ panicked
  /\ state = "ClientPrefaceReceived"
  /\ Len(output) = 0
  /\ ~Writable

\* C17 as stated: handle given a HEADERS frame in ServerPrefaceSent returns
\* false whether the HPACK decode succeeds or fails, and leaves the discrete
\* state, the output queue, the interest set and max_frame_size unchanged.
C17_HeadersReturnsFalse ==
  \A f \in Frames :
    (state = "ServerPrefaceSent" /\ f.kind = "Headers")
      => LET r == handle(Self, f, decode(Decoder_new, f.payload).res)
         IN ~r.panic /\ ~r.ret /\ r.self = Self

\* The bytes of a sequence of pieces.
RECURSIVE Flat(_)
Flat(pieces) == IF pieces = <<>> THEN <<>> ELSE Head(pieces) \o Flat(Tail(pieces))

\* The offsets at which a frame starts in bytes, walking from offset 0 by each
\* frame's 9-byte header and declared payload length.
FrameStarts(bytes) ==
  LET RECURSIVE Walk(_)
      Walk(off) ==
        IF off + FrameHeaderLen > Len(bytes) THEN {off}
        ELSE LET plen == bytes[off + 1] * 65536 + bytes[off + 2] * 256 + bytes[off + 3]
             IN IF off + FrameHeaderLen + plen > Len(bytes) THEN {off}
                ELSE {off} \cup Walk(off + FrameHeaderLen + plen)
  IN Walk(0)

\* C20: over any sequence of parse calls in which the caller drops exactly the
\* bytes reported consumed, the consumed count agrees with the discrete state:
\* nothing is consumed while the state is Init, the preface is counted in
\* exactly the call that moves Init to ClientPrefaceReceived, also when the
\* frame after the preface fails to parse (the call then returns the preface
\* length with an error), and from then on the bytes consumed are the preface,
\* once, followed by whole frames: no byte is consumed twice or skipped.
C20_ConsumedAgreesWithState ==
  LET stream == Flat(received)
      pos    == Len(stream) - Len(unread)
  IN /\ unread = Drop(stream, pos)
     /\ state = "Init" <=> pos = 0
     /\ state # "Init" =>
          /\ IsPrefix(PREFACE, stream)
          /\ pos >= Len(PREFACE)
          /\ (pos - Len(PREFACE)) \in FrameStarts(Drop(stream, Len(PREFACE)))
     /\ h2last.op \in {"parse", "parse_and_handle"} =>
          /\ (h2last.from = "Init" /\ h2last.mid # "Init")
               => ( /\ h2last.consumed >= Len(PREFACE)
                    /\ ~h2last.ok => h2last.consumed = Len(PREFACE) )
          /\ (h2last.from = "Init" /\ h2last.mid = "Init") => h2last.consumed = 0
          /\ (h2last.from # "Init" /\ ~h2last.ok) => h2last.consumed = 0
          /\ unread = Drop(h2last.input, h2last.consumed)

\* C20 witness: the preface arrived with the first bytes of a HEADERS frame;
\* parse moved Init to ClientPrefaceReceived and returned the preface length
\* with an error, and the session kept the bytes of the frame.
C20_Witness ==
  /\ h2last.op = "parse"
  /\ h2last.from = "Init"
  /\ ~h2last.ok
  /\ h2last.consumed = Len(PREFACE)
  /\ state = "ClientPrefaceReceived"
  /\ unread = SubSeq(HeadersFrame, 1, 5)

\* ------------------------------------------------------------------------
\* Backend pool
\* ------------------------------------------------------------------------

Apps        == {"app1", "app2"}
InstanceIds == {"inst-a", "inst-b"}
IpV4        == {"10.0.0.1", "10.0.0.2"}
Ports       == {8080}

SocketAddr(ip, port) == [ip |-> ip, port |-> port]
Addrs  == {SocketAddr(ip, port) : ip \in IpV4, port \in Ports}
NoAddr == SocketAddr("", 0)

\* The endpoints the control plane configures: two for app1, one of them also
\* serving app2.
Endpoints ==
  {<<"app1", SocketAddr("10.0.0.1", 8080)>>, <<"app1", SocketAddr("10.0.0.2", 8080)>>,
   <<"app2", SocketAddr("10.0.0.1", 8080)>>}

\* (ip_address + ":" + port).parse::<SocketAddr>().ok(): an IPv4 literal followed
\* by a port parses; a bare IPv6 literal (no brackets) or a host name does not.
ParseSocketAddr(ip, port) ==
  IF ip \in IpV4 THEN [some |-> TRUE,  addr |-> SocketAddr(ip, port)]
                 ELSE [some |-> FALSE, addr |-> NoAddr]

\* The Backend's own limits, behind can_open.
FailureThreshold == 1
ConnectionCap    == 1
\* add_instance is called while next_id is below this.
MaxNextId        == 2

\* Backend::new; the attributes the pool reads and the two counters.
Backend_new(instance_id, address, id) ==
  [id |-> id, address |-> address, active_connections |-> 0, failures |-> 0]

\* Backend::can_open
can_open(b) ==
  b.failures < FailureThreshold /\ b.active_connections < ConnectionCap

\* Backend::try_connect: the connect succeeds or fails; the Backend counts it.
try_connect(b) ==
  { [ok |-> TRUE,  backend |-> [b EXCEPT !.active_connections = @ + 1, !.failures = 0]],
    [ok |-> FALSE, backend |-> [b EXCEPT !.failures = @ + 1]] }

\* Backend::dec_connections
dec_connections(b) ==
  [b EXCEPT !.active_connections = IF @ > 0 THEN @ - 1 ELSE 0]

Range(seq) == {seq[i] : i \in 1..Len(seq)}

\* Iterator::find: the first of the matching indices, or 0.
FirstIndex(hits) ==
  IF hits = {} THEN 0 ELSE CHOOSE i \in hits : \A j \in hits : i <= j

\* The indices of the Backends at an address.
AtAddress(list, address) ==
  {i \in 1..Len(list.instances) : list.instances[i].address = address}

\* The indices of the Backends of an id.
WithId(list, id) ==
  {i \in 1..Len(list.instances) : list.instances[i].id = id}

\* BackendList::new
BackendList_new == [instances |-> <<>>, next_id |-> 0]

\* BackendList::has_instance
has_instance(list, address) ==
  \E i \in 1..Len(list.instances) : list.instances[i].address = address

\* add_instance without the search for the address
BackendList_add_instance_always(list, instance_id, address) ==
  [instances |-> Append(list.instances, Backend_new(instance_id, address, list.next_id)),
   next_id   |-> list.next_id + 1]

\* add_instance that does not advance next_id
BackendList_add_instance_same_id(list, instance_id, address) ==
  IF FirstIndex(AtAddress(list, address)) = 0
  THEN [instances |-> Append(list.instances, Backend_new(instance_id, address, list.next_id)),
        next_id   |-> list.next_id]
  ELSE list

\* BackendList::add_instance
BackendList_add_instance(list, instance_id, address) ==
  IF FirstIndex(AtAddress(list, address)) = 0
  THEN [instances |-> Append(list.instances, Backend_new(instance_id, address, list.next_id)),
        next_id   |-> list.next_id + 1]
  ELSE list

\* remove_instance with the retain predicate inverted
BackendList_remove_instance_inverted(list, address) ==
  [list EXCEPT !.instances = SelectSeq(@, LAMBDA b : b.address = address)]

\* remove_instance that hands the freed ids out again
BackendList_remove_instance_rewind(list, address) ==
  LET kept == SelectSeq(list.instances, LAMBDA b : b.address # address)
  IN [instances |-> kept,
      next_id   |-> IF Len(kept) = 0 THEN 0 ELSE kept[Len(kept)].id + 1]

\* BackendList::remove_instance
BackendList_remove_instance(list, address) ==
  [list EXCEPT !.instances = SelectSeq(@, LAMBDA b : b.address # address)]

\* BackendList::find_instance: the index of the Backend found, or 0
find_instance(list, address) ==
  FirstIndex(AtAddress(list, address))

\* find_sticky without the can_open test
find_sticky_any(list, sticky_session) ==
  FirstIndex(WithId(list, sticky_session))

\* BackendList::find_sticky: the index of the Backend found, or 0
find_sticky(list, sticky_session) ==
  LET i == FirstIndex(WithId(list, sticky_session))
  IN IF i # 0 /\ can_open(list.instances[i]) THEN i ELSE 0

\* available_instances without the can_open filter
available_instances_all(list) ==
  [i \in 1..Len(list.instances) |-> i]

\* BackendList::available_instances: the indices of the Backends that can open
available_instances(list) ==
  LET RECURSIVE Filter(_)
      Filter(i) ==
        IF i > Len(list.instances) THEN <<>>
        ELSE (IF can_open(list.instances[i]) THEN <<i>> ELSE <<>>) \o Filter(i + 1)
  IN Filter(1)

\* BackendList::next_available_instance: the indices random::<usize>() % len
\* can pick; the empty set is None.
next_available_instance(list) ==
  LET avail == available_instances(list)
  IN IF Len(avail) = 0 THEN {}
     ELSE {avail[(rnd % Len(avail)) + 1] : rnd \in 0..(Len(avail) - 1)}

\* BackendList::import_configuration_state
BackendList_import_configuration_state(instance_vec) ==
  LET RECURSIVE Fold(_, _)
      Fold(list, i) ==
        IF i > Len(instance_vec) THEN list
        ELSE LET parsed == ParseSocketAddr(instance_vec[i].ip_address, instance_vec[i].port)
             IN Fold(IF parsed.some
                     THEN BackendList_add_instance(list, instance_vec[i].instance_id, parsed.addr)
                     ELSE list,
                     i + 1)
  IN Fold(BackendList_new, 1)

\* HashMap insert
Put(map, k, v) == [a \in DOMAIN map \cup {k} |-> IF a = k THEN v ELSE map[a]]

\* BackendMap::new
BackendMap_new == [instances |-> <<>>, max_failures |-> 3]

\* import_configuration_state that replaces the whole map by the snapshot
import_configuration_state_clear(map, snapshot) ==
  [a \in DOMAIN snapshot |-> BackendList_import_configuration_state(snapshot[a])]

\* BackendMap::import_configuration_state
import_configuration_state(map, snapshot) ==
  [a \in DOMAIN map \cup DOMAIN snapshot |->
     IF a \in DOMAIN snapshot
     THEN BackendList_import_configuration_state(snapshot[a])
     ELSE map[a]]

\* BackendMap::add_instance
add_instance(map, app_id, instance_id, address) ==
  Put(map, app_id,
      BackendList_add_instance(IF app_id \in DOMAIN map THEN map[app_id] ELSE BackendList_new,
                               instance_id, address))

\* BackendMap::remove_instance
remove_instance(map, app_id, address) ==
  IF app_id \in DOMAIN map
  THEN Put(map, app_id, BackendList_remove_instance(map[app_id], address))
  ELSE map

\* BackendMap::close_backend_connection
close_backend_connection(map, app_id, address) ==
  IF app_id \in DOMAIN map /\ find_instance(map[app_id], address) # 0
  THEN LET i == find_instance(map[app_id], address)
       IN [map EXCEPT ![app_id].instances[i] = dec_connections(@)]
  ELSE map

\* BackendMap::has_backend
has_backend(map, app_id, address) ==
  IF app_id \in DOMAIN map THEN has_instance(map[app_id], address) ELSE FALSE

\* ---- selection ----

\* What a selection call leaves behind: the map, the Result it returns
\* ("Ok" with the Backend of id backend, or the error), and the Backend
\* methods it invoked (try_connect on the ids of tried, can_open on probed).
Selected(map, res, backend, tried, probed) ==
  [map |-> map, res |-> res, backend |-> backend, tried |-> tried, probed |-> probed]

NoBackendAvailable(map, probed) ==
  Selected(map, "NoBackendAvailable", -1, <<>>, probed)

\* backend.try_connect(..) on the Backend at index i of app_id's list, and the
\* conn.map(..).map_err(..) both selection paths return.
Connect(map, app_id, i, probed) ==
  LET b == map[app_id].instances[i]
  IN { Selected([map EXCEPT ![app_id].instances[i] = c.backend],
                IF c.ok THEN "Ok" ELSE "ConnectError",
                IF c.ok THEN b.id ELSE -1,
                <<b.id>>, probed) : c \in try_connect(b) }

Ids(list) == {list.instances[i].id : i \in 1..Len(list.instances)}

\* backend_from_app_id that looks the app up with entry().or_insert()
backend_from_app_id_entry(map, mf, app_id) ==
  LET m1 == Put(map, app_id, IF app_id \in DOMAIN map THEN map[app_id] ELSE BackendList_new)
      app_instances == m1[app_id]
  IN IF Len(app_instances.instances) = 0 \/ mf = 0
     THEN {NoBackendAvailable(m1, {})}
     ELSE LET picks == next_available_instance(app_instances)
          IN IF picks = {}
             THEN {NoBackendAvailable(m1, Ids(app_instances))}
             ELSE UNION {Connect(m1, app_id, i, Ids(app_instances)) : i \in picks}

\* BackendMap::backend_from_app_id. Every path through the body of the
\* for loop returns, so the loop body runs at most once.
backend_from_app_id(map, mf, app_id) ==
  IF app_id \in DOMAIN map
  THEN LET app_instances == map[app_id]
       IN IF Len(app_instances.instances) = 0
          THEN {NoBackendAvailable(map, {})}
          ELSE IF mf = 0
          THEN {NoBackendAvailable(map, {})}
          ELSE LET picks == next_available_instance(app_instances)
               IN IF picks = {}
                  THEN {NoBackendAvailable(map, Ids(app_instances))}
                  ELSE UNION {Connect(map, app_id, i, Ids(app_instances)) : i \in picks}
  ELSE {NoBackendAvailable(map, {})}

\* backend_from_sticky_session that turns to the other Backends when the
\* connect to the sticky one fails
backend_from_sticky_session_retry(map, mf, app_id, sticky_session) ==
  LET found == IF app_id \in DOMAIN map THEN find_sticky(map[app_id], sticky_session) ELSE 0
  IN IF found # 0
     THEN UNION { IF o.res = "Ok" THEN {o}
                  ELSE {[r EXCEPT !.tried = o.tried \o @] :
                          r \in backend_from_app_id(o.map, mf, app_id)} :
                  o \in Connect(map, app_id, found, {sticky_session}) }
     ELSE backend_from_app_id(map, mf, app_id)

\* BackendMap::backend_from_sticky_session
backend_from_sticky_session(map, mf, app_id, sticky_session) ==
  LET found == IF app_id \in DOMAIN map THEN find_sticky(map[app_id], sticky_session) ELSE 0
      asked == IF app_id \in DOMAIN map
               THEN {sticky_session} \cap Ids(map[app_id]) ELSE {}
  IN IF found # 0
     THEN Connect(map, app_id, found, asked)
     ELSE { [o EXCEPT !.probed = @ \cup asked] : o \in backend_from_app_id(map, mf, app_id) }

\* ---- the calls the proxy makes on a BackendMap ----

\* The snapshots handed to import_configuration_state hold up to
\* MaxSnapshotLen apps and instance records in all.
MaxSnapshotLen == 2

\* The instance records a snapshot can hold for an app: the app's endpoints
\* and one whose address does not parse.
Instances(app_id) ==
  {[instance_id |-> "inst-a", ip_address |-> e[2].ip, port |-> e[2].port] :
     e \in {x \in Endpoints : x[1] = app_id}}
  \cup {[instance_id |-> "inst-b", ip_address |-> "::1", port |-> 8080]}

RECURSIVE SeqsUpTo(_, _)
SeqsUpTo(S, n) ==
  IF n = 0 THEN {<<>>}
  ELSE LET shorter == SeqsUpTo(S, n - 1)
       IN shorter \cup {Append(q, x) : q \in shorter, x \in S}

RECURSIVE Records(_)
Records(snapshot) ==
  IF DOMAIN snapshot = {} THEN 0
  ELSE LET a == CHOOSE x \in DOMAIN snapshot : TRUE
       IN Len(snapshot[a]) + Records([x \in DOMAIN snapshot \ {a} |-> snapshot[x]])

Snapshots ==
  UNION { {f \in [keys -> UNION {SeqsUpTo(Instances(a), MaxSnapshotLen) : a \in keys}] :
             /\ \A a \in keys : f[a] \in SeqsUpTo(Instances(a), MaxSnapshotLen)
             /\ Cardinality(keys) + Records(f) <= MaxSnapshotLen} :
          keys \in SUBSET Apps }

\* ---- the sessions using the Backends ----

\* Per app and address, the number of followed sessions holding the Backend
\* the list has at the address (live) and the number holding a Backend that
\* was at the address and has left the list since (stale).
Sessions_new == [e \in Apps \X Addrs |-> [live |-> 0, stale |-> 0]]

\* The address of the Backend of an id.
AddressOf(list, id) == list.instances[FirstIndex(WithId(list, id))].address

\* A selection returned (b.clone(), conn): one more session holds the Backend.
Opened(s, o, app_id) ==
  IF o.res = "Ok"
  THEN [s EXCEPT ![<<app_id, AddressOf(o.map[app_id], o.backend)>>].live = @ + 1]
  ELSE s

\* The lists of the apps of gone dropped their Rc of the Backends at the
\* addresses of addrs; the sessions keep theirs.
Orphaned(s, gone, addrs) ==
  [e \in DOMAIN s |->
     IF e[1] \in gone /\ e[2] \in addrs
     THEN [live |-> 0, stale |-> s[e].stale + s[e].live]
     ELSE s[e]]

\* The kinds of session that can call close_backend_connection(app_id, address).
Closers(s, app_id, address) ==
  {k \in {"live", "stale"} :
     IF k = "live" THEN s[<<app_id, address>>].live > 0
                   ELSE s[<<app_id, address>>].stale > 0}

\* A session of that kind released its Backend.
Closed(s, app_id, address, kind) ==
  IF kind = "live"
  THEN [s EXCEPT ![<<app_id, address>>].live = @ - 1]
  ELSE [s EXCEPT ![<<app_id, address>>].stale = @ - 1]

NextIdOf(map, app_id) == IF app_id \in DOMAIN map THEN map[app_id].next_id ELSE 0

\* hit: the call tried the Backend whose id is the sticky id it was given.
Call(op) ==
  [op |-> op, app |-> "", hit |-> FALSE, res |-> "", backend |-> -1, tried |-> <<>>]

ImportConfigurationState ==
  /\ \E snapshot \in Snapshots :
       /\ instances' = import_configuration_state(instances, snapshot)
       /\ issued' = [a \in DOMAIN instances' |->
                       IF a \in DOMAIN snapshot THEN Ids(instances'[a]) ELSE issued[a]]
       /\ sessions' = Orphaned(sessions, DOMAIN snapshot, Addrs)
       /\ last' = [Call("import_configuration_state") EXCEPT
                     !.res = IF \E a \in DOMAIN snapshot \cap DOMAIN instances :
                                  Len(instances[a].instances) > 0
                             THEN "replaced" ELSE "extended"]
  /\ UNCHANGED <<max_failures, h2vars>>

AddInstance ==
  /\ \E e \in Endpoints, instance_id \in InstanceIds :
     LET app_id == e[1]
         address == e[2]
     IN
       /\ NextIdOf(instances, app_id) < MaxNextId
       /\ instances' = add_instance(instances, app_id, instance_id, address)
       /\ issued' = [a \in DOMAIN instances' |->
                       (IF a \in DOMAIN issued THEN issued[a] ELSE {}) \cup Ids(instances'[a])]
       /\ last' = [Call("add_instance") EXCEPT !.app = app_id,
                     !.res = IF has_backend(instances, app_id, address)
                             THEN "present" ELSE "appended"]
  /\ UNCHANGED <<max_failures, sessions, h2vars>>

RemoveInstance ==
  /\ \E app_id \in Apps, address \in Addrs :
       /\ instances' = remove_instance(instances, app_id, address)
       /\ sessions' = Orphaned(sessions, {app_id}, {address})
       /\ last' = [Call("remove_instance") EXCEPT !.app = app_id,
                     !.res = IF app_id \notin DOMAIN instances THEN "no app"
                             ELSE IF has_backend(instances, app_id, address)
                             THEN "removed" ELSE "absent"]
  /\ UNCHANGED <<max_failures, issued, h2vars>>

CloseBackendConnection ==
  /\ \E app_id \in Apps, address \in Addrs :
       /\ instances' = close_backend_connection(instances, app_id, address)
       /\ last' = Call("close_backend_connection")
  /\ UNCHANGED <<max_failures, issued, sessions, h2vars>>

Returned(op, app_id, sticky, o) ==
  [Call(op) EXCEPT !.app = app_id, !.hit = (o.tried = <<sticky>>), !.res = o.res,
     !.backend = o.backend, !.tried = o.tried]

BackendFromAppId ==
  /\ \E app_id \in Apps :
       \E o \in backend_from_app_id(instances, max_failures, app_id) :
         /\ instances' = o.map
         /\ last' = Returned("backend_from_app_id", app_id, -1, o)
  /\ UNCHANGED <<max_failures, issued, sessions, h2vars>>

\* The sticky ids sessions present: those a list may hold; an id at or above
\* next_id is one no Backend has.
StickyIds == 0..(MaxNextId - 1)

BackendFromStickySession ==
  /\ \E app_id \in Apps, sticky_session \in StickyIds :
       \E o \in backend_from_sticky_session(instances, max_failures, app_id, sticky_session) :
         /\ instances' = o.map
         /\ last' = Returned("backend_from_sticky_session", app_id, sticky_session, o)
  /\ UNCHANGED <<max_failures, issued, sessions, h2vars>>

InitPool ==
  /\ instances = BackendMap_new.instances
  /\ max_failures = BackendMap_new.max_failures
  /\ issued = <<>>
  /\ sessions = Sessions_new
  /\ last = Call("new")

NextPool ==
  \/ ImportConfigurationState
  \/ AddInstance
  \/ RemoveInstance
  \/ CloseBackendConnection
  \/ BackendFromAppId
  \/ BackendFromStickySession

\* ---- the calls of sessions that are followed from selection to close ----

\* A session selects a Backend on the non-sticky path and keeps the Rc it gets.
SessionFromAppId ==
  /\ \E app_id \in Apps :
       \E o \in backend_from_app_id(instances, max_failures, app_id) :
         /\ instances' = o.map
         /\ sessions' = Opened(sessions, o, app_id)
         /\ last' = Returned("backend_from_app_id", app_id, -1, o)
  /\ UNCHANGED <<max_failures, issued, h2vars>>

\* A session selects a Backend with a sticky id and keeps the Rc it gets.
SessionFromStickySession ==
  /\ \E app_id \in Apps, sticky_session \in StickyIds :
       \E o \in backend_from_sticky_session(instances, max_failures, app_id, sticky_session) :
         /\ instances' = o.map
         /\ sessions' = Opened(sessions, o, app_id)
         /\ last' = Returned("backend_from_sticky_session", app_id, sticky_session, o)
  /\ UNCHANGED <<max_failures, issued, h2vars>>

\* A session calls close_backend_connection with the app and the address of
\* the Backend it holds, and releases it.
SessionClose ==
  /\ \E app_id \in Apps, address \in Addrs :
       \E kind \in Closers(sessions, app_id, address) :
         /\ instances' = close_backend_connection(instances, app_id, address)
         /\ sessions' = Closed(sessions, app_id, address, kind)
         /\ last' = [Call("close_backend_connection") EXCEPT !.app = app_id, !.res = kind]
  /\ UNCHANGED <<max_failures, issued, h2vars>>

NextSessions ==
  \/ AddInstance
  \/ RemoveInstance
  \/ SessionFromAppId
  \/ SessionFromStickySession
  \/ SessionClose

\* ---- properties of the pool ----

\* The Backend of id sticky in app_id's list exists and can open.
StickyEligible(map, app_id, sticky) ==
  /\ app_id \in DOMAIN map
  /\ \E i \in 1..Len(map[app_id].instances) :
       map[app_id].instances[i].id = sticky /\ can_open(map[app_id].instances[i])

Eligible(list) == {i \in 1..Len(list.instances) : can_open(list.instances[i])}

\* C2 as stated: a non-sticky selection that does not succeed has swallowed
\* every failed try_connect, retrying while eligible Backends remain until it
\* has made max_failures attempts, and returns NoBackendAvailable, never the
\* connect error.
C2_RetriesThenNoBackendAvailable ==
  (last.op = "backend_from_app_id" /\ last.res # "Ok")
    => /\ last.res = "NoBackendAvailable"
       /\ last.tried # <<>> =>
            \/ Len(last.tried) = max_failures
            \/ Eligible(instances[last.app]) = {}

\* C3: when the app's list holds a Backend of id sticky_id that can open,
\* backend_from_sticky_session calls try_connect exactly once, on that Backend,
\* returns that attempt's result (the Backend on success, the connect error on
\* failure) and leaves every other Backend and every other app as it was.
C3_StickyHit ==
  \A app \in Apps, sticky \in StickyIds :
    StickyEligible(instances, app, sticky)
      => LET old  == instances[app].instances
             i    == CHOOSE k \in 1..Len(old) : old[k].id = sticky
             outs == backend_from_sticky_session(instances, max_failures, app, sticky)
         IN /\ \A o \in outs :
                 LET new == o.map[app].instances
                 IN /\ o.tried = <<sticky>>
                    /\ o.probed \subseteq {sticky}
                    /\ o.res \in {"Ok", "ConnectError"}
                    /\ o.res = "Ok" =>
                         /\ o.backend = sticky
                         /\ new[i].active_connections = old[i].active_connections + 1
                    /\ o.res = "ConnectError" =>
                         /\ o.backend = -1
                         /\ new[i].failures = old[i].failures + 1
                         /\ new[i].active_connections = old[i].active_connections
                    /\ new[i].id = old[i].id /\ new[i].address = old[i].address
                    /\ Len(new) = Len(old)
                    /\ \A k \in 1..Len(old) : k # i => new[k] = old[k]
                    /\ o.map[app].next_id = instances[app].next_id
                    /\ DOMAIN o.map = DOMAIN instances
                    /\ \A a \in DOMAIN instances : a # app => o.map[a] = instances[a]
            /\ {[ok |-> o.res = "Ok", backend |-> o.map[app].instances[i]] : o \in outs}
                 = try_connect(old[i])

\* C3 witness: a sticky selection tried its own Backend, with another
\* Backend in the list, and the connect failed.
C3_Witness ==
  /\ last.op = "backend_from_sticky_session"
  /\ last.hit
  /\ last.res = "ConnectError"
  /\ Len(instances[last.app].instances) = 2

\* What the caller and the map see of a set of selection outcomes.
Visible(outcomes) ==
  {[map |-> o.map, res |-> o.res, backend |-> o.backend, tried |-> o.tried] : o \in outcomes}

\* C4: when the app is absent, or no Backend of the app has id sticky_id, or
\* that Backend cannot open, backend_from_sticky_session has the same possible
\* results and the same effects on the map as backend_from_app_id on the same map.
C4_StickyMissIsNonSticky ==
  \A app_id \in Apps, sticky \in StickyIds :
    ~StickyEligible(instances, app_id, sticky)
      => Visible(backend_from_sticky_session(instances, max_failures, app_id, sticky))
           = Visible(backend_from_app_id(instances, max_failures, app_id))

\* C4 witness: a sticky selection did not try the Backend of its sticky id,
\* fell through and connected to another Backend of a list of two.
C4_Witness ==
  /\ last.op = "backend_from_sticky_session"
  /\ ~last.hit
  /\ last.res = "Ok"
  /\ last.tried = <<last.backend>>
  /\ Len(instances[last.app].instances) = 2

\* C5: after add_instance(app, id, addr), has_backend(app, addr) is true, and
\* a second add_instance with the same app and address, whatever the
\* instance id, leaves the list length, the entry's id and next_id unchanged.
C5_AddInstanceIdempotent ==
  \A app_id \in Apps, address \in Addrs, id1 \in InstanceIds, id2 \in InstanceIds :
    LET m1 == add_instance(instances, app_id, id1, address)
        m2 == add_instance(m1, app_id, id2, address)
        at(m) == {b \in Range(m[app_id].instances) : b.address = address}
    IN /\ has_backend(m1, app_id, address)
       /\ Len(m2[app_id].instances) = Len(m1[app_id].instances)
       /\ m2[app_id].next_id = m1[app_id].next_id
       /\ {b.id : b \in at(m2)} = {b.id : b \in at(m1)}
       /\ Cardinality(at(m1)) = 1
       /\ m2 = m1

\* C5 witness: add_instance was called for an address the app already has.
C5_Witness ==
  /\ last.op = "add_instance"
  /\ last.res = "present"
  /\ \E address \in Addrs : has_backend(instances, last.app, address)

\* C6: over add_instance and remove_instance calls on a BackendList, next_id
\* never decreases, grows by exactly one for each Backend appended, and the id
\* given to an appended Backend was never given out by that list before, also
\* when the earlier holder has been removed.
C6_IdsNeverReused ==
  [][ last'.op \in {"add_instance", "remove_instance"}
      => \A a \in DOMAIN instances' :
           LET old   == IF a \in DOMAIN instances THEN instances[a] ELSE BackendList_new
               new   == instances'[a]
               hist  == IF a \in DOMAIN issued THEN issued[a] ELSE {}
               fresh == {i \in 1..Len(new.instances) :
                           new.instances[i] \notin Range(old.instances)}
           IN /\ new.next_id >= old.next_id
              /\ new.next_id = old.next_id + Cardinality(fresh)
              /\ \A i \in fresh : new.instances[i].id \notin hist ]_vars

\* C6 witness: a Backend was appended to a list that had given out an id to a
\* Backend since removed.
C6_Witness ==
  /\ last.op = "add_instance"
  /\ last.res = "appended"
  /\ Cardinality(issued[last.app]) > Len(instances[last.app].instances)

\* C7: remove_instance(app, addr) on an existing app leaves has_backend(app,
\* addr) false and every other entry of the list present, in order, with its
\* id, and next_id and the other apps' lists unchanged; when the address is
\* not in the list or the app is absent the map is unchanged.
C7_RemoveInstanceFrame ==
  \A app \in Apps, addr \in Addrs :
    LET after == remove_instance(instances, app, addr)
    IN IF app \in DOMAIN instances
       THEN LET old  == instances[app].instances
                new  == after[app].instances
                kept == {i \in 1..Len(old) : old[i].address # addr}
                pos(i) == Cardinality({j \in kept : j <= i})
            IN /\ ~has_backend(after, app, addr)
               /\ Len(new) = Cardinality(kept)
               /\ \A i \in kept : new[pos(i)] = old[i]
               /\ after[app].next_id = instances[app].next_id
               /\ DOMAIN after = DOMAIN instances
               /\ \A a \in DOMAIN instances : a # app => after[a] = instances[a]
               /\ ~has_backend(instances, app, addr) => after = instances
       ELSE after = instances

\* C7 witness: remove_instance took an entry out of a list and left another in.
C7_Witness ==
  /\ last.op = "remove_instance"
  /\ last.res = "removed"
  /\ Len(instances[last.app].instances) = 1
  /\ instances[last.app].next_id = 2

\* C8: backend_from_app_id on an app that is not in the map, or whose list is
\* empty, returns NoBackendAvailable, calls no Backend method and leaves the
\* map unchanged, the same for the absent app as for the empty list.
C8_NoBackendsNoCalls ==
  \A app_id \in Apps :
    (app_id \notin DOMAIN instances \/ Len(instances[app_id].instances) = 0)
      => backend_from_app_id(instances, max_failures, app_id)
           = {[map |-> instances, res |-> "NoBackendAvailable", backend |-> -1,
               tried |-> <<>>, probed |-> {}]}

\* C8 witness: backend_from_app_id was called on an app whose last instance
\* had been removed.
C8_Witness ==
  /\ last.op = "backend_from_app_id"
  /\ last.app \in DOMAIN instances
  /\ Len(instances[last.app].instances) = 0
  /\ issued[last.app] # {}
  /\ last.res = "NoBackendAvailable"

\* The instance records lists of up to MaxSnapshotLen records, per app.
RecordLists == [a \in Apps |-> SeqsUpTo(Instances(a), MaxSnapshotLen)]

\* The list a snapshot's records for an app stand for: one new Backend per
\* distinct well-formed address, in the order of first appearance, with the
\* ids 0, 1, .. and no connection or failure counted.
FromRecords(recs) ==
  LET wf     == SelectSeq(recs, LAMBDA r : r.ip_address \in IpV4)
      addr   == [i \in 1..Len(wf) |-> SocketAddr(wf[i].ip_address, wf[i].port)]
      firsts == {i \in 1..Len(wf) : \A j \in 1..(i - 1) : addr[j] # addr[i]}
      nth(k) == CHOOSE i \in firsts : Cardinality({j \in firsts : j <= i}) = k
  IN [instances |-> [k \in 1..Cardinality(firsts) |->
                       [id |-> k - 1, address |-> addr[nth(k)],
                        active_connections |-> 0, failures |-> 0]],
      next_id   |-> Cardinality(firsts)]

\* C12: after import_configuration_state(snapshot) every app that was in the
\* map and is not a key of the snapshot keeps its BackendList unchanged, and
\* every app that is a key of the snapshot has a list built only from the
\* snapshot's records for that app: one new Backend per distinct well-formed
\* address, in snapshot order, with ids from 0; records whose ip_address:port
\* does not parse are dropped and no Backend of the prior list is retained.
C12_ImportReplacesSnapshotApps ==
  /\ \A snapshot \in Snapshots :
       LET after == import_configuration_state(instances, snapshot)
       IN /\ DOMAIN after = DOMAIN instances \cup DOMAIN snapshot
          /\ \A a \in DOMAIN instances \ DOMAIN snapshot : after[a] = instances[a]
          /\ \A a \in DOMAIN snapshot : after[a] = FromRecords(snapshot[a])
  /\ last.op = "import_configuration_state" =>
       \A a \in Apps : \A recs \in RecordLists[a] :
         BackendList_import_configuration_state(recs) = FromRecords(recs)

\* C12 witness: an import replaced the list of app1, whose Backend had a
\* connection open, by a list of one new Backend, and left app2's Backend,
\* with its open connection, as it was.
C12_Witness ==
  /\ last.op = "import_configuration_state"
  /\ last.res = "replaced"
  /\ DOMAIN instances = Apps
  /\ Len(instances["app1"].instances) = 1
  /\ instances["app1"].instances[1].active_connections = 0
  /\ instances["app1"].next_id = 1
  /\ Len(instances["app2"].instances) = 1
  /\ instances["app2"].instances[1].active_connections = 1

\* C13: in every reachable BackendMap, after any sequence of
\* import_configuration_state, add_instance, remove_instance,
\* close_backend_connection and selection calls, within each app's BackendList
\* no two Backends have the same address, no two Backends have the same id,
\* and every id in the list is strictly less than next_id.
C13_ListInvariant ==
  \A a \in DOMAIN instances :
    LET l == instances[a].instances
    IN \A i \in 1..Len(l) :
         /\ l[i].id < instances[a].next_id
         /\ \A j \in 1..Len(l) :
              i # j => (l[i].address # l[j].address /\ l[i].id # l[j].id)

\* C13 witness: the first of two Backends was removed, so the list holds the
\* Backend of id 1 alone, below next_id 2.
C13_Witness ==
  /\ last.op = "remove_instance"
  /\ last.res = "removed"
  /\ Len(instances[last.app].instances) = 1
  /\ instances[last.app].instances[1].id = 1
  /\ instances[last.app].next_id = 2

\* C15: on the non-sticky path backend_from_app_id invokes try_connect only on
\* a Backend of the requested app's list whose can_open() is true when it is
\* picked, every eligible Backend can be picked, and when the list is
\* non-empty but no Backend is eligible the call returns NoBackendAvailable
\* without invoking try_connect.
C15_PicksAmongEligible ==
  \A app_id \in DOMAIN instances :
    Len(instances[app_id].instances) > 0 =>
      LET list == instances[app_id]
          open == {list.instances[i].id : i \in Eligible(list)}
          outs == backend_from_app_id(instances, max_failures, app_id)
      IN /\ \A o \in outs :
              /\ \A k \in 1..Len(o.tried) : o.tried[k] \in open
              /\ \A a \in DOMAIN instances : a # app_id => o.map[a] = instances[a]
              /\ \A i \in 1..Len(list.instances) :
                   list.instances[i].id \notin Range(o.tried)
                     => o.map[app_id].instances[i] = list.instances[i]
         /\ open # {} =>
              /\ \A o \in outs : Len(o.tried) >= 1
              /\ \A id \in open : \A res \in {"Ok", "ConnectError"} :
                   \E o \in outs : o.tried[1] = id /\ o.res = res
         /\ open = {} =>
              outs = {[map |-> instances, res |-> "NoBackendAvailable", backend |-> -1,
                       tried |-> <<>>, probed |-> Ids(list)]}

\* C15 witness: backend_from_app_id connected to one Backend of a list of two
\* whose other Backend could not open.
C15_Witness ==
  /\ last.op = "backend_from_app_id"
  /\ last.res = "Ok"
  /\ Len(instances[last.app].instances) = 2
  /\ \E i \in 1..2 :
       /\ instances[last.app].instances[i].id # last.backend
       /\ ~can_open(instances[last.app].instances[i])

\* C18 as stated: for any interleaving of successful selections,
\* close_backend_connection, remove_instance and add_instance, every Backend
\* in a list has active_connections equal to the number of sessions that
\* selected that same Backend and have not yet called close_backend_connection
\* for it; closing a connection whose Backend was removed and whose address
\* was added again does not decrement the new Backend's counter.
C18_CountsMatchSessions ==
  \A a \in DOMAIN instances :
    \A i \in 1..Len(instances[a].instances) :
      LET b == instances[a].instances[i]
      IN b.active_connections = sessions[<<a, b.address>>].live

\* C19 as stated: across add_instance, remove_instance and
\* import_configuration_state calls, a sticky id that was assigned to a Backend
\* of an app is never later carried by a Backend of that app with a different
\* address; in particular no call leaves an id that a Backend of the list
\* carried before the call on a Backend at another address.
C19_StickyIdKeepsItsAddress ==
  [][ \A a \in DOMAIN instances \cap DOMAIN instances' :
        \A i \in 1..Len(instances[a].instances) :
          \A j \in 1..Len(instances'[a].instances) :
            instances[a].instances[i].id = instances'[a].instances[j].id
              => instances[a].instances[i].address = instances'[a].instances[j].address ]_vars

\* ------------------------------------------------------------------------
\* Specifications
\* ------------------------------------------------------------------------

Init == InitH2 /\ InitPool

Next == NextH2 \/ NextStream \/ NextPool \/ NextSessions

Spec == Init /\ [][Next]_vars

\* A session driving one State.
SpecH2 == Init /\ [][NextH2]_vars

\* A session feeding one State from its read buffer.
SpecStream == Init /\ [][NextStream]_vars

\* The proxy driving one BackendMap.
SpecPool == Init /\ [][NextPool]_vars

\* Sessions selecting and closing while the control plane adds and removes
\* instances.
SpecSessions == Init /\ [][NextSessions]_vars

====
